---- MODULE Spec2Model ----
(***************************************************************************)
(* The notebook bert_dissertion.ipynb as a state machine: its code cells   *)
(* run top to bottom (load, tokenize, embed, encode, pool), and the        *)
(* tokenizer / embedder / encoder / pooler they call are operators.        *)
(*                                                                         *)
(* Text is a sequence of one-character strings.  Real numbers are fixed    *)
(* point integers in units of 1/Scale.  The hidden width (768 in the       *)
(* notebook's printed modules) is modelled at the reduced width HiddenSize.*)
(***************************************************************************)
EXTENDS Integers, Sequences, FiniteSets, TLC

VARIABLES sentence, pc, tokenizer, model, encoding, encoder_outputs,
          bert_outputs, out, embCalls, calls, err

vars == <<sentence, pc, tokenizer, model, encoding, encoder_outputs,
          bert_outputs, out, embCalls, calls, err>>

(***************************************************************************)
(* Bounds of the model.                                                    *)
(***************************************************************************)
\* the hidden width of the model's vectors (768 in the notebook), reduced
HiddenSize == 2
\* input strings are concatenations of at most MaxPieces pieces
MaxPieces == 2
\* the long inputs exceed the position table by up to MaxExcess ids
MaxExcess == 2
\* number of distinct weight checkpoints from_pretrained may have loaded
NumCheckpoints == 2
\* number of states of the random generator a Dropout module may draw from
RngStates == 3
\* alternative context sequences have at most MaxAltLen positions
MaxAltLen == 2
\* fixed point resolution: the real number 1.0 is Scale units
Scale == 4

(***************************************************************************)
(* Program constants, as the notebook prints them.                         *)
(***************************************************************************)
PAD == 0
UNK == 100
CLS == 101
SEP == 102
MASK == 103
\* position_embeddings: Embedding(512, 768)
MaxPositionEmbeddings == 512
\* dropout: Dropout(p=0.1), in percent
DropoutPercent == 10

(***************************************************************************)
(* Generic helpers.                                                        *)
(***************************************************************************)
Max(S) == CHOOSE x \in S : \A y \in S : y <= x
Min(S) == CHOOSE x \in S : \A y \in S : x <= y
Abs(x) == IF x < 0 THEN -x ELSE x

\* concatenation of the sequences ss[lo..hi] (balanced, so long inputs stay shallow)
RECURSIVE Concat(_, _, _)
Concat(ss, lo, hi) ==
  IF lo > hi THEN <<>>
  ELSE IF lo = hi THEN ss[lo]
  ELSE LET mid == (lo + hi) \div 2
       IN Concat(ss, lo, mid) \o Concat(ss, mid + 1, hi)

Flatten(ss) == Concat(ss, 1, Len(ss))

\* the sum of the integers f[lo..hi] (balanced)
RECURSIVE SumRange(_, _, _)
SumRange(f, lo, hi) ==
  IF lo > hi THEN 0
  ELSE IF lo = hi THEN f[lo]
  ELSE LET mid == (lo + hi) \div 2
       IN SumRange(f, lo, mid) + SumRange(f, mid + 1, hi)

Indices(n) == [i \in 1..n |-> i]
Last(s) == s[Len(s)]

(***************************************************************************)
(* Text: characters and the vocabulary.                                    *)
(***************************************************************************)
UpperChars == <<"A", "B", "C", "D", "E", "F", "G", "H", "I", "J", "K", "L", "M",
                "N", "O", "P", "Q", "R", "S", "T", "U", "V", "W", "X", "Y", "Z">>
LowerChars == <<"a", "b", "c", "d", "e", "f", "g", "h", "i", "j", "k", "l", "m",
                "n", "o", "p", "q", "r", "s", "t", "u", "v", "w", "x", "y", "z">>

IsUpper(c) == \E i \in 1..Len(UpperChars) : UpperChars[i] = c
IsSpace(c) == c = " "
IsPunct(c) == c \in {"!", ",", ".", "?", "[", "]", "#"}

\* str.lower() of one character
Lower(c) ==
  IF IsUpper(c)
  THEN LowerChars[CHOOSE i \in 1..Len(UpperChars) : UpperChars[i] = c]
  ELSE c

LowerStr(s) == [i \in 1..Len(s) |-> Lower(s[i])]

\* the textual forms of the reserved tokens
PadTok == <<"[", "P", "A", "D", "]">>
UnkTok == <<"[", "U", "N", "K", "]">>
ClsTok == <<"[", "C", "L", "S", "]">>
SepTok == <<"[", "S", "E", "P", "]">>
MaskTok == <<"[", "M", "A", "S", "K", "]">>

SpecialTokens == {PadTok, UnkTok, ClsTok, SepTok, MaskTok}

\* the part of the 30522-entry vocabulary the notebook shows: the reserved
\* tokens it names and the word pieces of its sentence, with their printed
\* ids; every other word is unknown to the model and becomes [UNK]
Vocab ==
  << <<PadTok, PAD>>, <<UnkTok, UNK>>, <<ClsTok, CLS>>, <<SepTok, SEP>>,
     <<MaskTok, MASK>>,
     << <<"h", "e", "l", "l", "o">>, 7592 >>,
     << <<",">>, 1010 >>,
     << <<"m", "y">>, 2026 >>,
     << <<"d", "o", "g">>, 3899 >>,
     << <<"i", "s">>, 2003 >>,
     << <<"c", "u", "t", "e">>, 10140 >>,
     << <<".">>, 1012 >>,
     << <<"h", "e">>, 2002 >>,
     << <<"l", "i", "k", "e", "s">>, 7777 >>,
     << <<"s", "n", "o", "w">>, 4586 >>,
     << <<"#", "#", "b", "o", "a", "r", "d", "i", "n", "g">>, 21172 >>,
     << <<"!">>, 999 >> >>

VocabTokens == {Vocab[i][1] : i \in 1..Len(Vocab)}

\* convert_tokens_to_ids: a token outside the vocabulary is [UNK]
TokenToId(tok) ==
  IF tok \in VocabTokens
  THEN Vocab[CHOOSE i \in 1..Len(Vocab) : Vocab[i][1] = tok][2]
  ELSE UNK

\* convert_ids_to_tokens
IdToToken(id) == Vocab[CHOOSE i \in 1..Len(Vocab) : Vocab[i][2] = id][1]

(***************************************************************************)
(* The tokenizer: reserved tokens are cut out of the text verbatim, the    *)
(* rest is lower-cased, split at white space and punctuation, and each     *)
(* word is split into word pieces (greedy, longest match first).           *)
(***************************************************************************)
\* the word pieces of word from position start on; "bad" when some rest of
\* the word has no piece in the vocabulary
RECURSIVE PiecesFrom(_, _)
PiecesFrom(word, start) ==
  IF start > Len(word) THEN [bad |-> FALSE, pieces |-> <<>>]
  ELSE LET Piece(e) == IF start > 1
                        THEN <<"#", "#">> \o SubSeq(word, start, e)
                        ELSE SubSeq(word, start, e)
           ends == {e \in start..Len(word) : Piece(e) \in VocabTokens}
       IN IF ends = {} THEN [bad |-> TRUE, pieces |-> <<>>]
          ELSE LET e == Max(ends)
                   rest == PiecesFrom(word, e + 1)
               IN [bad |-> rest.bad, pieces |-> <<Piece(e)>> \o rest.pieces]

WordPiece(word) ==
  IF word \in SpecialTokens THEN <<word>>
  ELSE LET r == PiecesFrom(word, 1)
       IN IF r.bad THEN <<UnkTok>> ELSE r.pieces

\* the words of text: reserved tokens, punctuation marks, runs of letters
BasicTokens(text, do_lower_case) ==
  LET n == Len(text)
      SpecialAt(i) == {sp \in SpecialTokens :
                         /\ i + Len(sp) - 1 <= n
                         /\ SubSeq(text, i, i + Len(sp) - 1) = sp}
      Inside(i) == \E j \in 1..(i - 1) :
                     /\ j >= i - 5
                     /\ \E sp \in SpecialAt(j) : j + Len(sp) > i
      Class(i) == IF SpecialAt(i) # {} THEN "special"
                  ELSE IF Inside(i) THEN "inside"
                  ELSE IF IsSpace(text[i]) THEN "space"
                  ELSE IF IsPunct(text[i]) THEN "punct"
                  ELSE "letter"
      IsStart(i) == \/ Class(i) \in {"special", "punct"}
                    \/ /\ Class(i) = "letter"
                       /\ (i = 1 \/ Class(i - 1) # "letter")
      RunEnd(i) == Min({j \in i..n : j = n \/ Class(j + 1) # "letter"})
      Cased(w) == IF do_lower_case THEN LowerStr(w) ELSE w
      Word(i) == IF Class(i) = "special"
                 THEN CHOOSE sp \in SpecialAt(i) : TRUE
                 ELSE IF Class(i) = "punct" THEN <<text[i]>>
                 ELSE Cased(SubSeq(text, i, RunEnd(i)))
      starts == SelectSeq(Indices(n), IsStart)
  IN [k \in 1..Len(starts) |-> Word(starts[k])]

\* tokenizer.tokenize(text)
Tokenize(text, do_lower_case) ==
  LET words == BasicTokens(text, do_lower_case)
  IN Flatten([k \in 1..Len(words) |-> WordPiece(words[k])])

\* faulty variant: the reserved tokens are not added (add_special_tokens=False)
BuildInputs_NoSpecialTokens(ids) == ids

\* build_inputs_with_special_tokens
BuildInputs(ids) == <<CLS>> \o ids \o <<SEP>>

\* tokenizer(text)["input_ids"]: no truncation or max_length is passed
InputIds(tok, text) ==
  LET toks == Tokenize(text, tok.do_lower_case)
  IN BuildInputs([k \in 1..Len(toks) |-> TokenToId(toks[k])])

(***************************************************************************)
(* tokenizer.decode                                                        *)
(***************************************************************************)
\* clean_up_tokenization: no space before . ? ! ,
CleanUp(text) ==
  LET n == Len(text)
      Keep(i) == ~(text[i] = " " /\ i < n /\ text[i + 1] \in {".", "?", "!", ","})
      kept == SelectSeq(Indices(n), Keep)
  IN [k \in 1..Len(kept) |-> text[kept[k]]]

\* convert_tokens_to_string: join with spaces, glue "##" pieces to the left
TokensToString(toks) ==
  LET Part(k) == IF k = 1 THEN toks[k]
                 ELSE IF Len(toks[k]) >= 2 /\ SubSeq(toks[k], 1, 2) = <<"#", "#">>
                 THEN SubSeq(toks[k], 3, Len(toks[k]))
                 ELSE <<" ">> \o toks[k]
  IN Flatten([k \in 1..Len(toks) |-> Part(k)])

\* faulty variant: the reserved tokens are skipped (skip_special_tokens=True)
Decode_SkipSpecialTokens(ids) ==
  LET kept == SelectSeq(ids, LAMBDA id : IdToToken(id) \notin SpecialTokens)
  IN CleanUp(TokensToString([k \in 1..Len(kept) |-> IdToToken(kept[k])]))

\* tokenizer.decode(list of ids); the reserved tokens are not skipped
Decode(ids) == CleanUp(TokensToString([k \in 1..Len(ids) |-> IdToToken(ids[k])]))

\* tokenizer.decode(one id): the token's characters, joined by spaces
DecodeOne(id) ==
  LET t == IdToToken(id)
  IN CleanUp(Flatten([k \in 1..Len(t) |-> IF k = 1 THEN <<t[k]>> ELSE <<" ", t[k]>>]))

(***************************************************************************)
(* Fixed point arithmetic and tensors.  A rank-3 tensor is a sequence      *)
(* (batch) of sequences (positions) of vectors; a rank-2 tensor is a       *)
(* sequence (batch) of vectors.                                            *)
(***************************************************************************)
\* a / b rounded to the nearest integer, halves away from zero (b > 0)
RoundDiv(a, b) ==
  IF a >= 0 THEN (2 * a + b) \div (2 * b) ELSE -((2 * (-a) + b) \div (2 * b))

Isqrt(x) == CHOOSE r \in 0..x : r * r <= x /\ (r + 1) * (r + 1) > x

\* tensor.shape
Shape3(t) == <<Len(t), Len(t[1]), Len(t[1][1])>>
Shape2(t) == <<Len(t), Len(t[1])>>

VecAdd(u, v) == [k \in 1..Len(u) |-> u[k] + v[k]]

(***************************************************************************)
(* The weights of a checkpoint c.  The notebook prints the tables' sizes   *)
(* (30522 words, 512 positions, 2 token types), not their contents: each   *)
(* checkpoint is one fixed assignment of small values.                     *)
(***************************************************************************)
Checkpoints == 0..(NumCheckpoints - 1)

\* embeddings.word_embeddings.weight[id]
WordEmbedding(c, id) == [k \in 1..HiddenSize |-> ((id + 3 * c + 5 * k) % 7) - 3]
\* embeddings.position_embeddings.weight[p], p counted from 0
PositionEmbedding(c, p) == [k \in 1..HiddenSize |-> ((2 * p + k + c) % 5) - 2]
\* embeddings.token_type_embeddings.weight[t]
TokenTypeEmbedding(c, t) == [k \in 1..HiddenSize |-> ((t + 2 * k + c) % 3) + 1]
\* LayerNorm.weight and LayerNorm.bias (elementwise_affine=True)
LayerNormWeight(c) == [k \in 1..HiddenSize |-> 1 + ((k + c) % 2)]
LayerNormBias(c) == [k \in 1..HiddenSize |-> ((k + c) % 3) - 1]
\* pooler.dense.weight and pooler.dense.bias
PoolerWeight(c) ==
  [k \in 1..HiddenSize |-> [j \in 1..HiddenSize |-> ((k + 2 * j + c) % 3) - 1]]
PoolerBias(c) == [k \in 1..HiddenSize |-> ((2 * k + c) % 3) - 1]

(***************************************************************************)
(* The modules of BertModel.                                               *)
(***************************************************************************)
\* LayerNorm((768,), eps=1e-12, elementwise_affine=True) of one vector
LayerNorm(v, weight, bias) ==
  LET h == Len(v)
      s == SumRange(v, 1, h)
      centred == [k \in 1..h |-> h * v[k] - s]
      sq == [k \in 1..h |-> centred[k] * centred[k]]
      dev == Isqrt(SumRange(sq, 1, h) \div h)
      std == IF dev = 0 THEN 1 ELSE dev
  IN [k \in 1..h |-> weight[k] * RoundDiv(Scale * centred[k], std) + bias[k]]

\* Dropout(p=0.1): in training mode the elements the generator state r picks
\* are zeroed and the others scaled by 1/(1-p); in eval mode the identity
Dropped(i, k, r) == ((i + k + r) % (100 \div DropoutPercent)) = 0

Dropout(t, training, r) ==
  IF ~training THEN t
  ELSE [b \in 1..Len(t) |-> [i \in 1..Len(t[b]) |-> [k \in 1..Len(t[b][i]) |->
          IF Dropped(i, k, r) THEN 0
          ELSE RoundDiv(100 * t[b][i][k], 100 - DropoutPercent)]]]

\* torch.tanh in fixed point: x(27 + x^2) / (27 + 9 x^2), saturating at +-1
Tanh(a) ==
  IF a >= 3 * Scale THEN Scale
  ELSE IF a <= -(3 * Scale) THEN -Scale
  ELSE RoundDiv(a * (27 * Scale * Scale + a * a), 27 * Scale * Scale + 9 * a * a)

\* faulty variant: the length of the sequence is not checked against the position table
EmbeddingsRaises_NoLimit(enc) == enc.form # "pt"

\* faulty variant: the last row of the position table is taken to be out of range
EmbeddingsRaises_OffByOne(enc) ==
  \/ enc.form # "pt"
  \/ Len(enc.input_ids[1]) >= MaxPositionEmbeddings

\* model.embeddings(input_ids) raises: input_ids must be a tensor, and the
\* position table has MaxPositionEmbeddings rows
EmbeddingsRaises(enc) ==
  \/ enc.form # "pt"
  \/ Len(enc.input_ids[1]) > MaxPositionEmbeddings

\* faulty variant: the token type embedding is left out of the sum
Embeddings_NoTokenType(m, input_ids, r) ==
  LET c == m.checkpoint
      Row(ids) == [i \in 1..Len(ids) |->
                     LayerNorm(VecAdd(WordEmbedding(c, ids[i]),
                                      PositionEmbedding(c, i - 1)),
                               LayerNormWeight(c), LayerNormBias(c))]
  IN Dropout([b \in 1..Len(input_ids) |-> Row(input_ids[b])], m.training, r)

\* model.embeddings(input_ids): word + token type (all 0) + position,
\* LayerNorm, Dropout
Embeddings(m, input_ids, r) ==
  LET c == m.checkpoint
      Row(ids) == [i \in 1..Len(ids) |->
                     LayerNorm(VecAdd(VecAdd(WordEmbedding(c, ids[i]),
                                             TokenTypeEmbedding(c, 0)),
                                      PositionEmbedding(c, i - 1)),
                               LayerNormWeight(c), LayerNormBias(c))]
  IN Dropout([b \in 1..Len(input_ids) |-> Row(input_ids[b])], m.training, r)

\* faulty variant: the encoder loses the last position
Encoder_DropsLast(m, hidden_states, r) ==
  [last_hidden_state |->
     [b \in 1..Len(hidden_states) |->
        SubSeq(hidden_states[b], 1, Len(hidden_states[b]) - 1)]]

\* model.encoder(hidden_states): every output position is a function of its
\* own input vector and of all the input vectors (here: their mean), ends in
\* a LayerNorm; the transformer's internals are not part of the notebook
Encoder(m, hidden_states, r) ==
  LET c == m.checkpoint
      Mean(row) == [k \in 1..HiddenSize |->
                      RoundDiv(SumRange([i \in 1..Len(row) |-> row[i][k]], 1, Len(row)),
                               Len(row))]
      mixed == [b \in 1..Len(hidden_states) |->
                  [i \in 1..Len(hidden_states[b]) |-> Mean(hidden_states[b])]]
      attended == Dropout(mixed, m.training, r)
  IN [last_hidden_state |->
        [b \in 1..Len(hidden_states) |-> [i \in 1..Len(hidden_states[b]) |->
           LayerNorm(VecAdd(hidden_states[b][i], attended[b][i]),
                     LayerNormWeight(c), LayerNormBias(c))]]]

\* the dense layer of the pooler
PoolerDense(c, v) ==
  [k \in 1..HiddenSize |->
     SumRange([j \in 1..HiddenSize |-> PoolerWeight(c)[k][j] * v[j]], 1, HiddenSize)
       + PoolerBias(c)[k]]

\* faulty variant: the pooler averages all positions instead of taking the first
Pooler_MeanPooling(m, hidden_states) ==
  [b \in 1..Len(hidden_states) |->
     LET row == hidden_states[b]
         mean == [k \in 1..HiddenSize |->
                    RoundDiv(SumRange([i \in 1..Len(row) |-> row[i][k]], 1, Len(row)),
                             Len(row))]
         d == PoolerDense(m.checkpoint, mean)
     IN [k \in 1..HiddenSize |-> Tanh(d[k])]]

\* faulty variant: the pooler is applied to every position, none is selected
Pooler_NoSlice(m, hidden_states) ==
  [b \in 1..Len(hidden_states) |-> [i \in 1..Len(hidden_states[b]) |->
     LET d == PoolerDense(m.checkpoint, hidden_states[b][i])
     IN [k \in 1..HiddenSize |-> Tanh(d[k])]]]

\* faulty variant: the pooler has no activation
Pooler_NoActivation(m, hidden_states) ==
  [b \in 1..Len(hidden_states) |-> PoolerDense(m.checkpoint, hidden_states[b][1])]

\* model.pooler(hidden_states): dense layer and tanh on the first token
Pooler(m, hidden_states) ==
  [b \in 1..Len(hidden_states) |->
     LET d == PoolerDense(m.checkpoint, hidden_states[b][1])
     IN [k \in 1..HiddenSize |-> Tanh(d[k])]]

(***************************************************************************)
(* Loading (cell 2).                                                       *)
(***************************************************************************)
\* faulty variant: the cased variant of the model is loaded
model_name_Cased == "bert-base-cased"

model_name == "bert-base-uncased"

\* BertTokenizer.from_pretrained(model_name): the uncased variant lower-cases
BertTokenizer_from_pretrained(name) ==
  [name |-> name, do_lower_case |-> (name = "bert-base-uncased")]

\* faulty variant: the loaded model is left in training mode
BertModel_from_pretrained_Training(name, c) ==
  [name |-> name, checkpoint |-> c, training |-> TRUE]

\* BertModel.from_pretrained(model_name): the loaded model is in eval mode
BertModel_from_pretrained(name, c) ==
  [name |-> name, checkpoint |-> c, training |-> FALSE]

(***************************************************************************)
(* The inputs.  The notebook's sentence, strings put together from a few   *)
(* pieces ("you can play with the sentence"), and strings of "!" around    *)
(* the length limit.                                                       *)
(***************************************************************************)
Sentence ==
  <<"H", "e", "l", "l", "o", ",", " ", "m", "y", " ", "d", "o", "g", " ", "i",
    "s", " ", "c", "u", "t", "e", ".", " ", "H", "e", " ", "l", "i", "k", "e",
    "s", " ", "s", "n", "o", "w", "b", "o", "a", "r", "d", "i", "n", "g", "!">>

Pieces == { <<"h", "e">>, <<"H", "e">>, <<" ">>, <<"!">>, SepTok,
            <<"[", "s", "e", "p", "]">> }

PieceSeqs == UNION {[1..n -> Pieces] : n \in 0..MaxPieces}

ShortInputs == {Flatten(ps) : ps \in PieceSeqs}

LongInputs == {[i \in 1..(MaxPositionEmbeddings - 2 + d) |-> "!"] : d \in 0..MaxExcess}

Inputs == {Sentence, LowerStr(Sentence)} \cup ShortInputs \cup LongInputs

(***************************************************************************)
(* The notebook's variables before they are assigned.                      *)
(***************************************************************************)
NoTokenizer == [name |-> "", do_lower_case |-> FALSE]
NoModel == [name |-> "", checkpoint |-> -1, training |-> FALSE]
NoEncoding == [form |-> "undefined", input_ids |-> <<>>]
NoEncoderOutputs == [last_hidden_state |-> <<>>]
NoTensor == <<>>

Init ==
  /\ sentence \in Inputs
  /\ pc = "cell1"
  /\ tokenizer = NoTokenizer
  /\ model = NoModel
  /\ encoding = NoEncoding
  /\ encoder_outputs = NoEncoderOutputs
  /\ bert_outputs = NoTensor
  /\ out = <<>>
  /\ embCalls = <<>>
  /\ calls = <<>>
  /\ err = "none"

\* a cell's display is appended to the outputs
Show(cell, shown) == Append(out, [cell |-> cell, shown |-> shown])

\* a call of one of the four stages, with the form of the value it was given
\* (the tokenizer: of the value it returned)
Call(stage, form) == [stage |-> stage, cell |-> pc, form |-> form]

\* faulty variant: the exception is swallowed and the run counts as complete
Raise_Swallowed(cell, what) ==
  /\ err' = what
  /\ pc' = "done"
  /\ out' = Show(cell, <<what>>)

\* an exception ends the run at the cell that raised it
Raise(cell, what) ==
  /\ err' = what
  /\ pc' = "halted"
  /\ out' = Show(cell, <<what>>)

\* cell 1: !pip install transformers, torch
Cell1 ==
  /\ pc = "cell1"
  /\ pc' = "cell2"
  /\ UNCHANGED <<sentence, tokenizer, model, encoding, encoder_outputs,
                 bert_outputs, out, embCalls, calls, err>>

\* cell 2: tokenizer and model are loaded
Cell2 ==
  /\ pc = "cell2"
  /\ \E c \in Checkpoints :
       /\ tokenizer' = BertTokenizer_from_pretrained(model_name)
       /\ model' = BertModel_from_pretrained(model_name, c)
  /\ pc' = "cell4"
  /\ UNCHANGED <<sentence, encoding, encoder_outputs, bert_outputs, out,
                 embCalls, calls, err>>

\* cell 4: encoding = tokenizer(sentence); ids, token strings, decode printed
Cell4 ==
  /\ pc = "cell4"
  /\ encoding' = [form |-> "list", input_ids |-> InputIds(tokenizer, sentence)]
  /\ calls' = Append(calls, Call("tokenizer", "list"))
  /\ out' = Show("cell4", <<encoding'.input_ids,
                            [k \in 1..Len(encoding'.input_ids) |->
                               DecodeOne(encoding'.input_ids[k])],
                            Decode(encoding'.input_ids)>>)
  /\ pc' = "cell7"
  /\ UNCHANGED <<sentence, tokenizer, model, encoder_outputs, bert_outputs,
                 embCalls, err>>

\* cell 7: model.embeddings is displayed
Cell7 ==
  /\ pc = "cell7"
  /\ out' = Show("cell7", <<"BertEmbeddings", MaxPositionEmbeddings, DropoutPercent>>)
  /\ pc' = "cell9"
  /\ UNCHANGED <<sentence, tokenizer, model, encoding, encoder_outputs,
                 bert_outputs, embCalls, calls, err>>

\* faulty variant: return_tensors="pt" is left out, encoding stays a list
Cell9_ListForm ==
  /\ pc = "cell9"
  /\ encoding' = [form |-> "list", input_ids |-> InputIds(tokenizer, sentence)]
  /\ calls' = calls \o <<Call("tokenizer", "list"), Call("embeddings", "list")>>
  /\ Raise("cell9", "embeddings raised")
  /\ UNCHANGED <<sentence, tokenizer, model, encoder_outputs, bert_outputs,
                 embCalls>>

\* cell 9: encoding = tokenizer(sentence, return_tensors="pt");
\*         model.embeddings(encoding["input_ids"]) is displayed
Cell9 ==
  /\ pc = "cell9"
  /\ encoding' = [form |-> "pt", input_ids |-> <<InputIds(tokenizer, sentence)>>]
  /\ calls' = calls \o <<Call("tokenizer", "pt"), Call("embeddings", encoding'.form)>>
  /\ IF EmbeddingsRaises(encoding')
     THEN /\ Raise("cell9", "embeddings raised")
          /\ UNCHANGED embCalls
     ELSE /\ \E r \in 0..(RngStates - 1) :
               embCalls' = Append(embCalls, Embeddings(model, encoding'.input_ids, r))
          /\ out' = Show("cell9", <<Last(embCalls')>>)
          /\ pc' = "cell11"
          /\ UNCHANGED err
  /\ UNCHANGED <<sentence, tokenizer, model, encoder_outputs, bert_outputs>>

\* cell 11: model.embeddings(encoding["input_ids"]).shape is displayed
Cell11 ==
  /\ pc = "cell11"
  /\ calls' = Append(calls, Call("embeddings", encoding.form))
  /\ IF EmbeddingsRaises(encoding)
     THEN /\ Raise("cell11", "embeddings raised")
          /\ UNCHANGED embCalls
     ELSE /\ \E r \in 0..(RngStates - 1) :
               embCalls' = Append(embCalls, Embeddings(model, encoding.input_ids, r))
          /\ out' = Show("cell11", <<Shape3(Last(embCalls'))>>)
          /\ pc' = "cell13"
          /\ UNCHANGED err
  /\ UNCHANGED <<sentence, tokenizer, model, encoding, encoder_outputs,
                 bert_outputs>>

\* faulty variant: the model is put in training mode before the pass
Cell13_TrainMode ==
  /\ pc = "cell13"
  /\ model' = [model EXCEPT !.training = TRUE]
  /\ calls' = calls \o <<Call("embeddings", encoding.form), Call("encoder", "tensor")>>
  /\ \E r \in 0..(RngStates - 1) :
       embCalls' = Append(embCalls, Embeddings(model', encoding.input_ids, r))
  /\ \E r \in 0..(RngStates - 1) :
       encoder_outputs' = Encoder(model', Last(embCalls'), r)
  /\ out' = Show("cell13", <<encoder_outputs'.last_hidden_state,
                             Shape3(encoder_outputs'.last_hidden_state)>>)
  /\ pc' = "cell16"
  /\ UNCHANGED <<sentence, tokenizer, encoding, bert_outputs, err>>

\* cell 13: encoder_outputs = model.encoder(model.embeddings(...));
\*          last_hidden_state and its shape are printed
Cell13 ==
  /\ pc = "cell13"
  /\ IF EmbeddingsRaises(encoding)
     THEN /\ calls' = Append(calls, Call("embeddings", encoding.form))
          /\ Raise("cell13", "embeddings raised")
          /\ UNCHANGED <<embCalls, encoder_outputs>>
     ELSE /\ calls' = calls \o <<Call("embeddings", encoding.form),
                                 Call("encoder", "tensor")>>
          /\ \E r \in 0..(RngStates - 1) :
               embCalls' = Append(embCalls, Embeddings(model, encoding.input_ids, r))
          /\ \E r \in 0..(RngStates - 1) :
               encoder_outputs' = Encoder(model, Last(embCalls'), r)
          /\ out' = Show("cell13", <<encoder_outputs'.last_hidden_state,
                                     Shape3(encoder_outputs'.last_hidden_state)>>)
          /\ pc' = "cell16"
          /\ UNCHANGED err
  /\ UNCHANGED <<sentence, tokenizer, model, encoding, bert_outputs>>

\* faulty variant: after pooling, the embedder is run once more
Cell16_EmbedsAgain ==
  /\ pc = "cell16"
  /\ calls' = calls \o <<Call("pooler", "tensor"), Call("embeddings", encoding.form)>>
  /\ bert_outputs' = Pooler(model, encoder_outputs.last_hidden_state)
  /\ \E r \in 0..(RngStates - 1) :
       embCalls' = Append(embCalls, Embeddings(model, encoding.input_ids, r))
  /\ out' = Show("cell16", <<bert_outputs', Shape2(bert_outputs')>>)
  /\ pc' = "done"
  /\ UNCHANGED <<sentence, tokenizer, model, encoding, encoder_outputs, err>>

\* cell 16: bert_outputs = model.pooler(encoder_outputs.last_hidden_state);
\*          the pooled tensor and its shape are printed
Cell16 ==
  /\ pc = "cell16"
  /\ IF encoder_outputs = NoEncoderOutputs
     THEN /\ calls' = calls
          /\ Raise("cell16", "name 'encoder_outputs' is not defined")
          /\ UNCHANGED bert_outputs
     ELSE /\ calls' = Append(calls, Call("pooler", "tensor"))
          /\ bert_outputs' = Pooler(model, encoder_outputs.last_hidden_state)
          /\ out' = Show("cell16", <<bert_outputs', Shape2(bert_outputs')>>)
          /\ pc' = "done"
          /\ UNCHANGED err
  /\ UNCHANGED <<sentence, tokenizer, model, encoding, encoder_outputs, embCalls>>

Next == Cell1 \/ Cell2 \/ Cell4 \/ Cell7 \/ Cell9 \/ Cell11 \/ Cell13 \/ Cell16

(***************************************************************************)
(* Helpers of the properties.                                              *)
(***************************************************************************)
\* the id sequence the variable encoding holds, in either form
Ids == IF encoding.form = "pt" THEN encoding.input_ids[1] ELSE encoding.input_ids

Count(seq, x) == Cardinality({i \in 1..Len(seq) : seq[i] = x})

\* what the cell displayed, when it ran
Shown(cell) == out[CHOOSE i \in 1..Len(out) : out[i].cell = cell].shown

HasShown(cell) == \E i \in 1..Len(out) : out[i].cell = cell

PrintedIds == <<101, 7592, 1010, 2026, 3899, 2003, 10140, 1012, 2002, 7777,
                4586, 21172, 999, 102>>

PrintedDecode ==
  <<"[", "C", "L", "S", "]", " ", "h", "e", "l", "l", "o", ",", " ", "m", "y",
    " ", "d", "o", "g", " ", "i", "s", " ", "c", "u", "t", "e", ".", " ", "h",
    "e", " ", "l", "i", "k", "e", "s", " ", "s", "n", "o", "w", "b", "o", "a",
    "r", "d", "i", "n", "g", "!", " ", "[", "S", "E", "P", "]">>

\* context sequences that agree with h at position 0 and are arbitrary after it
AltVectors == [1..HiddenSize -> {-Scale, Scale}]
AltTails == UNION {[1..n -> AltVectors] : n \in 0..(MaxAltLen - 1)}

(***************************************************************************)
(* C1.  The pooled vector depends on the context vector at position 0      *)
(* only: every context sequence, of any length, that has the same vector   *)
(* at position 0 as the encoder's output is pooled to the same vector.     *)
(***************************************************************************)
C1_PoolerNonInterference ==
  pc = "done" =>
    \A tail \in AltTails :
      Pooler(model, << <<encoder_outputs.last_hidden_state[1][1]>> \o tail >>)
        = bert_outputs

\* a pooled sequence longer than the alternatives, whose other positions
\* differ from position 0
C1_Witness ==
  /\ pc = "done"
  /\ Len(encoder_outputs.last_hidden_state[1]) > MaxAltLen
  /\ \E i \in 2..Len(encoder_outputs.last_hidden_state[1]) :
       encoder_outputs.last_hidden_state[1][i] # encoder_outputs.last_hidden_state[1][1]

(***************************************************************************)
(* C2.  Whatever the input, the id sequence the tokenizer returns starts   *)
(* with the id of [CLS] (101) and ends with the id of [SEP] (102).         *)
(***************************************************************************)
C2_MarkersAtBothEnds ==
  encoding.form # "undefined" =>
    (Len(Ids) >= 2 /\ Ids[1] = CLS /\ Ids[Len(Ids)] = SEP)

\* the notebook's sentence, tokenized to the ids the notebook prints
C2_Witness ==
  /\ sentence = Sentence
  /\ encoding.form = "list"
  /\ encoding.input_ids = PrintedIds

\* the passes of tokenize / detokenize that follow cell 4's tokenization
SecondIds == InputIds(tokenizer, Decode(Ids))
ThirdIds == InputIds(tokenizer, Decode(SecondIds))

(***************************************************************************)
(* C3, as claimed.  After the first pass tokenize / detokenize is          *)
(* idempotent: the third tokenization returns the ids of the second.       *)
(***************************************************************************)
C3_Original == pc = "cell7" => ThirdIds = SecondIds

(***************************************************************************)
(* C3, amended.  Tokenize / detokenize is not idempotent: detokenizing     *)
(* keeps the markers as text, tokenizing reads them back as markers and    *)
(* adds its own, so every pass has one more [CLS] and one more [SEP] than  *)
(* the pass before it, and the third tokenization differs from the second. *)
(***************************************************************************)
C3_EachPassAddsMarkers ==
  pc = "cell7" =>
    /\ Count(SecondIds, CLS) = Count(Ids, CLS) + 1
    /\ Count(SecondIds, SEP) = Count(Ids, SEP) + 1
    /\ Count(ThirdIds, CLS) = Count(SecondIds, CLS) + 1
    /\ Count(ThirdIds, SEP) = Count(SecondIds, SEP) + 1
    /\ ThirdIds # SecondIds

\* the notebook's sentence after cell 4, with its decode as printed
C3_Witness ==
  /\ pc = "cell7"
  /\ sentence = Sentence
  /\ Decode(Ids) = PrintedDecode
  /\ SecondIds = <<CLS>> \o PrintedIds \o <<SEP>>

(***************************************************************************)
(* C4, as claimed.  The tokenizer call of the notebook never returns more  *)
(* than 512 ids (it would fail or truncate instead).                       *)
(***************************************************************************)
C4_Original ==
  encoding.form # "undefined" => Len(Ids) <= MaxPositionEmbeddings

(***************************************************************************)
(* C4, amended.  The tokenizer call of the notebook returns every id of    *)
(* the input, also more than 512 (it neither fails nor truncates); it is   *)
(* the embedder that fails on a sequence of more than 512 ids, at the      *)
(* first model.embeddings call, so that no embedding, context or pooled    *)
(* vector is ever computed for position indices above 511.                 *)
(***************************************************************************)
C4_EmbedderRejectsLongSequences ==
  /\ encoding.form # "undefined" =>
       Len(Ids) = Len(Tokenize(sentence, tokenizer.do_lower_case)) + 2
  /\ \A i \in 1..Len(embCalls) : Len(embCalls[i][1]) <= MaxPositionEmbeddings
  /\ (encoding.form = "pt" /\ Len(Ids) > MaxPositionEmbeddings) =>
       /\ pc = "halted"
       /\ err = "embeddings raised"
       /\ embCalls = <<>>
       /\ encoder_outputs = NoEncoderOutputs
       /\ bert_outputs = NoTensor

\* an input of more than 512 ids, returned whole by the tokenizer and
\* rejected by the embedder in cell 9
C4_Witness ==
  /\ pc = "halted"
  /\ encoding.form = "pt"
  /\ Len(Ids) > MaxPositionEmbeddings
  /\ HasShown("cell4")
  /\ Len(Shown("cell4")[1]) > MaxPositionEmbeddings

(***************************************************************************)
(* C5.  For an id sequence of n <= 512 ids every model.embeddings call     *)
(* succeeds and returns a tensor of shape (1, n, hidden width): one batch  *)
(* row, one vector per id.                                                 *)
(***************************************************************************)
C5_EmbeddingShape ==
  /\ \A i \in 1..Len(embCalls) : Shape3(embCalls[i]) = <<1, Len(Ids), HiddenSize>>
  /\ HasShown("cell11") => Shown("cell11")[1] = <<1, Len(Ids), HiddenSize>>
  /\ (encoding.form = "pt" /\ Len(Ids) <= MaxPositionEmbeddings) =>
       /\ err = "none"
       /\ embCalls # <<>>

\* the longest sequence within the limit, embedded and its shape displayed
C5_Witness ==
  /\ HasShown("cell11")
  /\ Len(Ids) = MaxPositionEmbeddings
  /\ Shown("cell11")[1] = <<1, MaxPositionEmbeddings, HiddenSize>>

(***************************************************************************)
(* C6.  The encoder preserves the shape: last_hidden_state has the shape   *)
(* of the embeddings it was given (and of those cell 11 displayed).        *)
(***************************************************************************)
C6_EncoderPreservesShape ==
  pc \in {"cell16", "done"} =>
    /\ Shape3(encoder_outputs.last_hidden_state) = Shape3(Last(embCalls))
    /\ Shown("cell13")[2] = Shown("cell11")[1]

\* the notebook's sentence: 14 ids in, 14 context vectors out
C6_Witness ==
  /\ pc = "cell16"
  /\ sentence = Sentence
  /\ Shown("cell13")[2] = <<1, Len(PrintedIds), HiddenSize>>

(***************************************************************************)
(* C7.  The pooled output has shape (1, hidden width) whatever the length  *)
(* of the input sequence, from 2 ids to 512.                               *)
(***************************************************************************)
C7_PooledShape ==
  pc = "done" =>
    /\ Shape2(bert_outputs) = <<1, HiddenSize>>
    /\ Shown("cell16")[2] = <<1, HiddenSize>>

\* the longest sequence pooled
C7_Witness ==
  /\ pc = "done"
  /\ Len(Ids) = MaxPositionEmbeddings
  /\ Shape2(bert_outputs) = <<1, HiddenSize>>

(***************************************************************************)
(* C8.  Every element of the pooled output lies in [-1, 1].                *)
(***************************************************************************)
C8_PooledRange ==
  \A b \in 1..Len(bert_outputs) : \A k \in 1..Len(bert_outputs[b]) :
    -Scale <= bert_outputs[b][k] /\ bert_outputs[b][k] <= Scale

\* a pooled vector computed by a dense layer whose output left [-1, 1]
C8_Witness ==
  /\ pc = "done"
  /\ \E k \in 1..HiddenSize :
       Abs(PoolerDense(model.checkpoint, encoder_outputs.last_hidden_state[1][1])[k])
         > Scale

(***************************************************************************)
(* C9.  Every stage is deterministic.  The tokenizer returns the same ids  *)
(* in cell 4 and in cell 9; all model.embeddings calls (cells 9, 11, 13)   *)
(* return the same tensor, which no state of the random generator changes  *)
(* (the Dropout module does nothing in the loaded model); and the same     *)
(* holds of the encoder and the pooler.                                    *)
(***************************************************************************)
C9_Deterministic ==
  /\ (encoding.form = "pt" /\ HasShown("cell4")) => Ids = Shown("cell4")[1]
  /\ \A i, j \in 1..Len(embCalls) : embCalls[i] = embCalls[j]
  /\ \A i \in 1..Len(embCalls) : \A r \in 0..(RngStates - 1) :
       embCalls[i] = Embeddings(model, encoding.input_ids, r)
  /\ pc \in {"cell16", "done"} =>
       \A r \in 0..(RngStates - 1) :
         encoder_outputs = Encoder(model, Last(embCalls), r)
  /\ pc = "done" => bert_outputs = Pooler(model, encoder_outputs.last_hidden_state)

\* the three model.embeddings calls have been made, on the notebook's sentence
C9_Witness ==
  /\ pc = "cell16"
  /\ sentence = Sentence
  /\ Len(embCalls) = 3

\* the text positions that belong to a literal reserved token
MarkerPositions(text) ==
  {i \in 1..Len(text) :
     \E sp \in SpecialTokens : \E j \in 1..i :
       /\ j + Len(sp) > i
       /\ j + Len(sp) - 1 <= Len(text)
       /\ SubSeq(text, j, j + Len(sp) - 1) = sp}

\* s and t differ in letter case only
SameButCase(s, t) == LowerStr(s) = LowerStr(t)

(***************************************************************************)
(* C10, as claimed.  Two inputs that differ only in letter case get the    *)
(* same ids, and detokenization returns lower-case text.                   *)
(***************************************************************************)
C10_Original ==
  pc = "cell7" =>
    /\ \A t \in Inputs :
         SameButCase(t, sentence) => InputIds(tokenizer, t) = Ids
    /\ \A i \in 1..Len(Decode(Ids)) : ~IsUpper(Decode(Ids)[i])

(***************************************************************************)
(* C10, amended.  Two inputs that differ only in letter case, and not      *)
(* inside the literal text of a reserved token ([CLS], [SEP], [UNK],       *)
(* [PAD], [MASK]), get the same ids; detokenization returns text whose     *)
(* only upper-case letters are those of the reserved tokens.               *)
(***************************************************************************)
C10_CaseInsensitiveOutsideMarkers ==
  pc = "cell7" =>
    /\ \A t \in Inputs :
         (SameButCase(t, sentence) /\ MarkerPositions(t) = MarkerPositions(sentence))
           => InputIds(tokenizer, t) = Ids
    /\ \A i \in 1..Len(Decode(Ids)) :
         IsUpper(Decode(Ids)[i]) => i \in MarkerPositions(Decode(Ids))

\* the notebook's sentence, which has upper-case letters and a lower-case
\* variant among the inputs, decoded as printed
C10_Witness ==
  /\ pc = "cell7"
  /\ sentence = Sentence
  /\ LowerStr(sentence) # sentence
  /\ LowerStr(sentence) \in Inputs
  /\ Decode(Ids) = PrintedDecode

(***************************************************************************)
(* C11.  What enters the sum the embedder normalises.                      *)
(***************************************************************************)
\* the normalised sum of the given terms, for the id at (0-based) position p
EmbeddedTwoTerms(id, p) ==
  LayerNorm(VecAdd(WordEmbedding(model.checkpoint, id),
                   PositionEmbedding(model.checkpoint, p)),
            LayerNormWeight(model.checkpoint), LayerNormBias(model.checkpoint))

EmbeddedThreeTerms(id, p) ==
  LayerNorm(VecAdd(VecAdd(WordEmbedding(model.checkpoint, id),
                          TokenTypeEmbedding(model.checkpoint, 0)),
                   PositionEmbedding(model.checkpoint, p)),
            LayerNormWeight(model.checkpoint), LayerNormBias(model.checkpoint))

\* C11 as stated: the embedder's output at every position is the
\* normalisation of the sum of exactly two vectors, the word embedding of the
\* id there and the position embedding of that position; nothing else enters.
C11_Original ==
  embCalls # <<>> =>
    \A i \in 1..Len(Ids) : Last(embCalls)[1][i] = EmbeddedTwoTerms(Ids[i], i - 1)

\* C11 as the code has it: the embedder's output at every position is the
\* normalisation of the sum of three vectors, the word embedding of the id
\* there, the position embedding of that position, and the token type
\* embedding of type 0, which is the same vector at every position.
C11_EmbedderSumsThreeTerms ==
  embCalls # <<>> =>
    \A i \in 1..Len(Ids) : Last(embCalls)[1][i] = EmbeddedThreeTerms(Ids[i], i - 1)

\* the notebook's sentence embedded, at a position where the token type
\* term changes the normalised vector
C11_Witness ==
  /\ sentence = Sentence
  /\ embCalls # <<>>
  /\ \E i \in 1..Len(Ids) :
       /\ Last(embCalls)[1][i] = EmbeddedThreeTerms(Ids[i], i - 1)
       /\ Last(embCalls)[1][i] # EmbeddedTwoTerms(Ids[i], i - 1)

(***************************************************************************)
(* C12.  The order of the stages, how often each is called, and what each  *)
(* is given.                                                               *)
(***************************************************************************)
Stages == <<"tokenizer", "embeddings", "encoder", "pooler">>

StageRank(stage) == CHOOSE k \in 1..Len(Stages) : Stages[k] = stage

CallsOf(stage) == Cardinality({i \in 1..Len(calls) : calls[i].stage = stage})

\* no stage is called after a later stage of the pipeline has been called
StagesInOrder ==
  \A i, j \in 1..Len(calls) :
    i < j => StageRank(calls[i].stage) <= StageRank(calls[j].stage)

\* the encoder was given the embedder's output for the ids in encoding, and
\* the pooler that encoder call's last_hidden_state
StagesChained ==
  /\ pc \in {"cell16", "done"} =>
       /\ \E r \in 0..(RngStates - 1) :
            Last(embCalls) = Embeddings(model, encoding.input_ids, r)
       /\ \E r \in 0..(RngStates - 1) :
            encoder_outputs = Encoder(model, Last(embCalls), r)
  /\ pc = "done" =>
       bert_outputs = Pooler(model, encoder_outputs.last_hidden_state)

\* C12 as stated: the stages run in the order tokenize, embed, encode, pool,
\* each of them once, and each stage is given the output of the stage
\* before it.
C12_Original ==
  /\ StagesInOrder
  /\ \A k \in 1..Len(Stages) : CallsOf(Stages[k]) <= 1
  /\ StagesChained

\* C12 as the code has it: the stages are called in the order tokenize,
\* embed, encode, pool and never after a later stage, but not once each: a
\* complete run calls the tokenizer twice (cells 4 and 9), the embedder three
\* times (cells 9, 11 and 13), the encoder once and the pooler once.  The
\* encoder is given the embedder's output for the ids in encoding, the
\* pooler that encoder call's last_hidden_state.
C12_StagesInOrderEmbedderRepeated ==
  /\ StagesInOrder
  /\ CallsOf("tokenizer") <= 2
  /\ CallsOf("embeddings") <= 3
  /\ CallsOf("encoder") <= 1
  /\ CallsOf("pooler") <= 1
  /\ pc = "done" => /\ CallsOf("tokenizer") = 2
                    /\ CallsOf("embeddings") = 3
                    /\ CallsOf("encoder") = 1
                    /\ CallsOf("pooler") = 1
  /\ StagesChained

\* a complete run on the notebook's sentence: seven calls, pooled from the
\* one encoder call
C12_Witness ==
  /\ pc = "done"
  /\ sentence = Sentence
  /\ Len(calls) = 7
  /\ [k \in 1..7 |-> calls[k].cell] =
       <<"cell4", "cell9", "cell9", "cell11", "cell13", "cell13", "cell16">>
  /\ bert_outputs = Pooler(model, encoder_outputs.last_hidden_state)

(***************************************************************************)
(* C13.  The calls leave the loaded tokenizer and model as they were.      *)
(***************************************************************************)
Loaded == pc \notin {"cell1", "cell2"}

\* tokenizer and model are what cell 2 loaded
AsLoaded ==
  /\ tokenizer = BertTokenizer_from_pretrained(model_name)
  /\ \E c \in Checkpoints : model = BertModel_from_pretrained(model_name, c)

\* a later call returned what the earlier calls on the same input returned
SameAsEarlierCalls ==
  /\ \A i, j \in 1..Len(embCalls) : embCalls[i] = embCalls[j]
  /\ (HasShown("cell4") /\ encoding.form = "pt") => Ids = Shown("cell4")[1]

\* C13: once loaded, the tokenizer (its vocabulary and settings) and the
\* model (its weights and mode) are never changed by a cell that calls them:
\* in every state after cell 2 they are what cell 2 loaded, every step after
\* cell 2 leaves both as they are, and a later call on the same input returns
\* what the earlier calls returned.
C13_LoadedArtefactsUnchanged ==
  /\ [](Loaded => (AsLoaded /\ SameAsEarlierCalls))
  /\ [][Loaded => (tokenizer' = tokenizer /\ model' = model)]_vars

\* a complete run: two tokenizer calls, three embedder calls, the encoder and
\* the pooler have run, and tokenizer and model are still as loaded
C13_Witness ==
  /\ pc = "done"
  /\ Len(calls) = 7
  /\ Len(embCalls) = 3
  /\ embCalls[1] = embCalls[3]
  /\ AsLoaded
  /\ model.training = FALSE

(***************************************************************************)
(* C14.  A run completes all four stages or fails and yields nothing.      *)
(***************************************************************************)
\* the input is the empty string, or has text the vocabulary does not cover
\* (the tokenizer gave it the id of [UNK])
Malformed ==
  \/ sentence = <<>>
  \/ \E i \in 1..Len(Ids) : Ids[i] = UNK

Completed ==
  /\ pc = "done"
  /\ err = "none"
  /\ CallsOf("pooler") = 1
  /\ Shape2(bert_outputs) = <<1, HiddenSize>>

Failed ==
  /\ pc = "halted"
  /\ err # "none"
  /\ encoder_outputs = NoEncoderOutputs
  /\ bert_outputs = NoTensor
  /\ CallsOf("pooler") = 0

\* a run ends completed or failed, and nothing follows a failure
AllOrNothing ==
  /\ pc = "done" => Completed
  /\ pc = "halted" => Failed
  /\ err # "none" <=> pc = "halted"
  /\ bert_outputs # NoTensor => pc = "done"


\* no cell runs after the run has completed or failed: no retry, no recovery
NoStepAfterTheEnd == [][pc \notin {"done", "halted"}]_vars

\* C14 as stated: a run either completes all four stages and yields a pooled
\* vector, or fails at some stage and yields none, with no retry, recovery or
\* partial result; and an input that is the empty string or has text the
\* vocabulary does not cover ends in the failure.
C14_Original ==
  /\ AllOrNothing
  /\ pc = "done" => ~Malformed

\* C14 as the code has it: a run either completes all four stages and yields
\* a pooled vector, or fails at some stage and yields none, with no retry,
\* recovery or partial result.  The failure is the embedder's, on more than
\* MaxPositionEmbeddings ids, and only that: the empty string (ids 101, 102)
\* and text the vocabulary does not cover (id 100) complete like any other
\* input.
C14_AllOrNothingFailsOnLengthOnly ==
  /\ [](AllOrNothing)
  /\ [](pc = "halted" => Len(Ids) > MaxPositionEmbeddings)
  /\ [](pc \in {"cell11", "cell13", "cell16", "done"} =>
          Len(Ids) <= MaxPositionEmbeddings)
  /\ NoStepAfterTheEnd

\* the empty string completes with a pooled vector; it has only the markers
C14_Witness ==
  /\ sentence = <<>>
  /\ Completed
  /\ Ids = <<CLS, SEP>>
  /\ Len(calls) = 7

(***************************************************************************)
(* C15.  Each cell finds the notebook's variables in the form it needs.    *)
(***************************************************************************)
\* every model.embeddings call was given the tensor form of cell 9
EmbedderGivenTensorForm ==
  \A i \in 1..Len(calls) :
    calls[i].stage = "embeddings" =>
      /\ calls[i].form = "pt"
      /\ calls[i].cell \in {"cell9", "cell11", "cell13"}
      /\ \E j \in 1..(i - 1) :
           /\ calls[j] = [stage |-> "tokenizer", cell |-> "cell9", form |-> "pt"]
           /\ \A k \in (j + 1)..(i - 1) : calls[k].stage # "tokenizer"

\* encoding is in tensor form from cell 9 on; encoder_outputs is assigned
\* when cell 16 is to run
VariablesReady ==
  /\ pc \in {"cell11", "cell13", "cell16", "done"} => encoding.form = "pt"
  /\ pc \in {"cell16", "done"} => encoder_outputs # NoEncoderOutputs
  /\ \A i \in 1..Len(calls) :
       calls[i].stage = "pooler" => \E j \in 1..(i - 1) : calls[j].stage = "encoder"

\* C15: in a top-to-bottom run every model.embeddings call (cells 9, 11, 13)
\* is given the tensor form that cell 9 assigned to encoding, never the list
\* form of cell 4; encoder_outputs is assigned by cell 13 before the pooler
\* reads it in cell 16; and between these assignments and uses no cell
\* assigns encoding or encoder_outputs again.
C15_VariablesAssignedBeforeUse ==
  /\ [](EmbedderGivenTensorForm /\ VariablesReady)
  /\ [][/\ pc \in {"cell11", "cell13", "cell16"} => encoding' = encoding
        /\ pc = "cell16" => encoder_outputs' = encoder_outputs]_vars

\* a complete run: encoding went from list form (cell 4) to tensor form
\* (cell 9), the embedder was called three times on it, and the pooler ran
\* on the assigned encoder_outputs
C15_Witness ==
  /\ pc = "done"
  /\ calls[1] = [stage |-> "tokenizer", cell |-> "cell4", form |-> "list"]
  /\ calls[2] = [stage |-> "tokenizer", cell |-> "cell9", form |-> "pt"]
  /\ CallsOf("embeddings") = 3
  /\ encoding.form = "pt"
  /\ encoder_outputs # NoEncoderOutputs
  /\ calls[7] = [stage |-> "pooler", cell |-> "cell16", form |-> "tensor"]

Spec == Init /\ [][Next]_vars
====
